---- MODULE Spec2Model ----
(***************************************************************************)
(* The scheduled-message subsystem of the assistant:                       *)
(* tools/schedule_messages.py (class MessageSchedule), with its            *)
(* collaborators utils/conversations.py and the telebot send_message call. *)
(*                                                                         *)
(* Two threads share the object: the caller of add() and the daemon thread *)
(* running _process_schedule().  Each thread is modelled by its position   *)
(* (add_pc, pc); a step of the model is the code between two blocking      *)
(* calls (file I/O, network send, sleep).                                  *)
(*                                                                         *)
(* Spec is one process started on an empty store.  SpecProcess is a        *)
(* sequence of processes on one file: each starts on what the file holds   *)
(* (pc = "off" before __init__, "init_failed" when __init__ raised) and    *)
(* may end at any point, also inside a save.  SpecWrites is one process    *)
(* with _save_messages taken step by step (open, dump, close), so that the *)
(* writes of the two threads overlap.                                      *)
(*                                                                         *)
(* SpecAssistant is the Assistant object of main.py with the handlers of   *)
(* the chats, which share its conversation_history; SpecAgent is           *)
(* FileAgent.process_task of agents/file_agent.py.                         *)
(***************************************************************************)
EXTENDS Integers, Sequences, FiniteSets, TLC

VARIABLES
    now,                 \* datetime.now(): instants since 2030-01-01 00:00:00
    scheduled_messages,  \* self.scheduled_messages: dict str -> list of dict
    schedule_file,       \* content of data/scheduled_messages.json
    history,             \* self.conversations.history: dict str -> list
    add_pc,              \* position of the thread calling add(); "off": no object
    add_call,            \* the add() call in progress, or the last result
    pc,                  \* position of the _process_schedule thread
    current_time,        \* local current_time of _process_schedule
    di_used,             \* size of the dict when the .items() iterator was made
    ki,                  \* position of the .items() iterator
    copy_len,            \* length of the copy messages[:] being iterated
    mi,                  \* position in the copy messages[:]
    bot_calls,           \* the bot.send_message calls of the process, in order
    tick_first,          \* Len(bot_calls) when the running tick started
    tick_due,            \* the jobs pending and due when the running tick started
    save_f,              \* _save_messages: the file object f of each thread
    conversation_history,\* Assistant.conversation_history, shared by all chats
    handler_pc,          \* where the message handler of each chat stands
    scheduler_calls,     \* the message_scheduler.schedule_message calls made
    current_iteration,   \* FileAgent.current_iteration
    agent_pc,            \* where FileAgent.process_task stands
    model_calls          \* the chat.completions.create calls of process_task

schedule_vars == << now, scheduled_messages, schedule_file, history, add_pc,
                    add_call, pc, current_time, di_used, ki, copy_len, mi,
                    bot_calls, tick_first, tick_due >>
write_vars == << save_f >>
assistant_vars == << conversation_history, handler_pc, scheduler_calls >>
agent_vars == << current_iteration, agent_pc, model_calls >>
\* What the scheduler's own steps leave alone.
other_vars == << write_vars, assistant_vars, agent_vars >>

vars == << schedule_vars, other_vars >>

-----------------------------------------------------------------------------
(* Bounds of the model *)

MaxNow == 2
MaxJobs == 2
MaxChats == 3
MaxModelCalls == 12
MaxDepth == 1

\* The inputs add() is called with.  Payloads are told apart by giving the
\* n-th job accepted the n-th text.
ChatIds == {1, 2}
Payloads == << "hello", "bye", "again", "more" >>
WellFormed == {"2030-01-01 00:00:01", "2030-1-1 0:0:2"}
Malformed == {"2030-01-01 00:00", "tomorrow 9am"}
TimeTexts == WellFormed \cup Malformed

\* What bot.send_message raises when the delivery fails.
DeliveryErrors == {"Forbidden: bot was blocked by the user"}
\* What open(self.schedule_file, 'w') raises when the file cannot be opened
\* for writing; the file is then left as it was.
DiskErrors == {"[Errno 13] Permission denied"}

-----------------------------------------------------------------------------
(* Library functions, restricted to the inputs above *)

\* An exception value, and str(e).
Exception(type, text) == [type |-> type, text |-> text]
str_e(e) == e.text

\* The outcome of a call: the value returned or the exception raised.
Returns(value) == [value |-> value]
Raises(e) == [raises |-> e]
Raised(outcome) == "raises" \in DOMAIN outcome
\* A call that has not returned yet.
NotReturned == [returned |-> FALSE]

\* A parser that takes a text without seconds as the full minute.
strptime_lenient(s) ==
    CASE s = "2030-01-01 00:00:01" -> Returns(1)
      [] s = "2030-1-1 0:0:2"      -> Returns(2)
      [] s = "2030-01-01 00:00"    -> Returns(0)
      [] OTHER -> Raises(Exception("ValueError", "time data does not match format"))

\* datetime.strptime(s, "%Y-%m-%d %H:%M:%S"): the instant, or ValueError.
\* The directives accept fields without leading zeros.
strptime(s) ==
    CASE s = "2030-01-01 00:00:01" -> Returns(1)
      [] s = "2030-1-1 0:0:2"      -> Returns(2)
      [] OTHER -> Raises(Exception("ValueError", "time data does not match format"))

\* Only the last bit of the id is written.
str_last_bit(i) == IF i % 2 = 1 THEN "1" ELSE "0"

\* str(chat_id) of an int, and int(s) of such a string.
str(i) == CASE i = 1 -> "1" [] i = 2 -> "2" [] i = 3 -> "3" [] OTHER -> "0"
int(s) == CASE s = "1" -> 1 [] s = "2" -> 2 [] s = "3" -> 3 [] OTHER -> 0

-----------------------------------------------------------------------------
(* Python dicts, as insertion-ordered sequences of items *)

EmptyDict == << >>
HasKey(d, k) == \E i \in 1..Len(d) : d[i].k = k
KeyIndex(d, k) == CHOOSE i \in 1..Len(d) : d[i].k = k
Get(d, k) == d[KeyIndex(d, k)].v
\* d[k] = v
SetItem(d, k, v) ==
    IF HasKey(d, k)
    THEN [d EXCEPT ![KeyIndex(d, k)].v = v]
    ELSE Append(d, [k |-> k, v |-> v])

-----------------------------------------------------------------------------
(* The persisted document *)

\* The file is missing, or holds a text.  A text is kept as the chunks
\* json.dump writes at the top level: the opening brace, one member for each
\* recipient, the closing brace.
Missing == [exists |-> FALSE]
File(text) == [exists |-> TRUE, text |-> text]
Open == [tok |-> "{"]
Close == [tok |-> "}"]
Member(name, value) == [tok |-> "member", name |-> name, value |-> value]

\* The keys of a job in the order they were inserted: lines 54-56, line 101.
FieldOrder == << "message", "scheduled_time", "status", "error" >>

\* An encoder that writes the three keys every job has.
dump_object_fixed(job) ==
    [i \in 1..3 |-> << FieldOrder[i], job[FieldOrder[i]] >>]

\* A job as a JSON object: its members, in insertion order.
dump_object(job) ==
    LET names == SelectSeq(FieldOrder, LAMBDA f : f \in DOMAIN job)
    IN  [i \in 1..Len(names) |-> << names[i], job[names[i]] >>]

\* A JSON object as a dict: of two members of one name the last one counts.
load_object(members) ==
    LET at(f) == CHOOSE i \in 1..Len(members) :
                    /\ members[i][1] = f
                    /\ \A j \in (i + 1)..Len(members) : members[j][1] # f
    IN  [f \in {members[i][1] : i \in 1..Len(members)} |-> members[at(f)][2]]

\* json.dump(messages, f, indent=2) into the file opened with 'w'.  The keys
\* of the dict are strings already (line 49).
json_dump(messages) ==
    File(<< Open >> \o
         [i \in 1..Len(messages) |->
             Member(messages[i].k,
                    [j \in 1..Len(messages[i].v) |->
                        dump_object(messages[i].v[j])])] \o
         << Close >>)

\* Does the text parse?  (The member names of the texts here are distinct.)
Parses(text) ==
    /\ Len(text) >= 2
    /\ text[1] = Open
    /\ text[Len(text)] = Close
    /\ \A i \in 2..(Len(text) - 1) : text[i].tok = "member"

\* open(self.schedule_file, 'r') and json.load(f): the dict, or the
\* exception raised
json_load(file) ==
    IF ~file.exists
    THEN Raises(Exception("FileNotFoundError", "[Errno 2] No such file or directory"))
    ELSE IF ~Parses(file.text)
    THEN Raises(Exception("JSONDecodeError", "Expecting value"))
    ELSE Returns([i \in 1..(Len(file.text) - 2) |->
                    [k |-> file.text[i + 1].name,
                     v |-> [j \in 1..Len(file.text[i + 1].value) |->
                              load_object(file.text[i + 1].value[j])]]])

-----------------------------------------------------------------------------
(* Jobs *)

\* The job starts as queued.
new_message_queued(message, scheduled_time) ==
    [message |-> message, scheduled_time |-> scheduled_time, status |-> "queued"]

\* schedule_messages.py lines 53-57
new_message(message, scheduled_time) ==
    [message |-> message, scheduled_time |-> scheduled_time, status |-> "pending"]

\* The status is left as it was.
mark_sent_forgotten(message) == message

\* message["status"] = "sent"
mark_sent(message) == [message EXCEPT !.status = "sent"]

\* The error is recorded and the job left pending, to be tried again.
mark_failed_retry(message, e) ==
    [f \in DOMAIN message \cup {"error"} |->
        CASE f = "error"  -> str_e(e)
          [] OTHER        -> message[f]]

\* message["status"] = "failed"; message["error"] = str(e)
mark_failed(message, e) ==
    [f \in DOMAIN message \cup {"error"} |->
        CASE f = "status" -> "failed"
          [] f = "error"  -> str_e(e)
          [] OTHER        -> message[f]]

\* The comparison the other way round.
InPast_reversed(scheduled_datetime, t) == scheduled_datetime > t

\* scheduled_datetime < datetime.now()
InPast(scheduled_datetime, t) == scheduled_datetime < t

\* The comparison the other way round.
IsDue_reversed(t, scheduled_time) == t <= scheduled_time

\* current_time >= scheduled_time
IsDue(t, scheduled_time) == t >= scheduled_time

\* message["status"] == "pending"
IsPending(message) == message.status = "pending"

\* The jobs of a dict, as (item index, list index) pairs.
Jobs(d) == UNION {{<<i, j>> : j \in 1..Len(d[i].v)} : i \in 1..Len(d)}
HasJob(d, p) == p[1] <= Len(d) /\ p[2] <= Len(d[p[1]].v)
Job(d, p) == d[p[1]].v[p[2]]
TotalJobs(d) == Cardinality(Jobs(d))

-----------------------------------------------------------------------------
(* The objects beside the scheduler, before anything runs on them *)

\* No thread is inside _save_messages.
Closed == [open |-> FALSE]
NoWrite == save_f = [add |-> Closed, loop |-> Closed]

\* The thread of Assistant.schedule_daily_summaries, which calls chat() for
\* a summary; the other callers of chat() are the handlers of the chats.
SummaryThread == 0
Callers == ChatIds \cup {SummaryThread}

\* main.py line 44 and lines 555-561: an empty history, no handler running.
NoAssistant ==
    /\ conversation_history = << >>
    /\ handler_pc = [t \in Callers |-> "idle"]
    /\ scheduler_calls = << >>

\* agents/file_agent.py, FileAgent.__init__: no task is being processed.
Idle == [at |-> "idle"]
NoAgent ==
    /\ current_iteration = 0
    /\ agent_pc = Idle
    /\ model_calls = 0

-----------------------------------------------------------------------------
(* MessageSchedule.__init__ *)

\* No file exists: _init_data_store saves {} and loads it back; Conversations()
\* starts with an empty history; the clock stands at the epoch.
Init ==
    /\ now = 0
    /\ schedule_file = json_dump(EmptyDict)
    /\ scheduled_messages = json_load(json_dump(EmptyDict)).value
    /\ history = EmptyDict
    /\ add_pc = "idle"
    /\ add_call = [result |-> NotReturned]
    /\ pc = "sleep"
    /\ current_time = 0
    /\ di_used = 0
    /\ ki = 0
    /\ copy_len = 0
    /\ mi = 0
    /\ bot_calls = << >>
    /\ tick_first = 0
    /\ tick_due = {}
    /\ NoWrite
    /\ NoAssistant
    /\ NoAgent

-----------------------------------------------------------------------------
(* The clock *)

Clock ==
    /\ now < MaxNow
    /\ now' = now + 1
    /\ UNCHANGED << scheduled_messages, schedule_file, history, add_pc,
                    add_call, pc, current_time, di_used, ki, copy_len, mi,
                    bot_calls, tick_first, tick_due >>
    /\ UNCHANGED other_vars

-----------------------------------------------------------------------------
(* MessageSchedule.add, lines 38-69 *)

tick_vars == << pc, current_time, di_used, ki, copy_len, mi, bot_calls,
                tick_first, tick_due, history >>
add_vars == << add_pc, add_call >>

\* lines 49-59: the dict with the new job appended to the recipient's list
append_message(d, chat_id_str, job) ==
    LET d1 == IF HasKey(d, chat_id_str) THEN d ELSE SetItem(d, chat_id_str, << >>)
    IN  SetItem(d1, chat_id_str, Append(Get(d1, chat_id_str), job))

\* The jobs a file holds: none when it cannot be read.
StoredJobs(file) ==
    LET loaded == json_load(file)
    IN  IF Raised(loaded) THEN 0 ELSE TotalJobs(loaded.value)

TheCall(chat_id, message, scheduled_time) ==
    [chat_id |-> chat_id, message |-> message, scheduled_time |-> scheduled_time,
     stored_before |-> StoredJobs(schedule_file)]

Returned(call, result) == [f \in DOMAIN call \cup {"result"} |->
                              IF f = "result" THEN result ELSE call[f]]

\* line 47, line 69 (the text of the ValueError is left out), lines 62-66
PastError == [error |-> "Cannot schedule messages in the past"]
InvalidFormat == [error |-> "Invalid datetime format"]
Success(scheduled_time) ==
    [success |-> TRUE, message |-> "Successfully scheduled message",
     scheduled_time |-> scheduled_time]

\* lines 43-59 and 68-69: parse, compare with the clock, append.
AddCall(chat_id, message, scheduled_time) ==
    /\ add_pc = "idle"
    /\ LET scheduled_datetime == strptime(scheduled_time)
           call == TheCall(chat_id, message, scheduled_time)
       IN  IF Raised(scheduled_datetime)
           THEN /\ add_call' = [result |-> InvalidFormat]
                /\ UNCHANGED << add_pc, scheduled_messages >>
           ELSE IF InPast(scheduled_datetime.value, now)
           THEN /\ add_call' = [result |-> PastError]
                /\ UNCHANGED << add_pc, scheduled_messages >>
           ELSE /\ TotalJobs(scheduled_messages) < MaxJobs
                /\ scheduled_messages' =
                      append_message(scheduled_messages, str(chat_id),
                                     new_message(message, scheduled_time))
                /\ add_call' = Returned(call, NotReturned)
                /\ add_pc' = "save"
    /\ UNCHANGED << now, schedule_file >>
    /\ UNCHANGED tick_vars
    /\ UNCHANGED other_vars

\* line 60 succeeds, lines 62-66
AddSaved ==
    /\ add_pc = "save"
    /\ schedule_file' = json_dump(scheduled_messages)
    /\ add_call' = [result |-> Success(add_call.scheduled_time)]
    /\ add_pc' = "idle"
    /\ UNCHANGED << now, scheduled_messages >>
    /\ UNCHANGED tick_vars
    /\ UNCHANGED other_vars

\* line 60 raises: an OSError is no ValueError, it leaves add()
AddSaveRaises(text) ==
    /\ add_pc = "save"
    /\ add_call' = [result |-> Raises(Exception("OSError", text))]
    /\ add_pc' = "idle"
    /\ UNCHANGED << now, scheduled_messages, schedule_file >>
    /\ UNCHANGED tick_vars
    /\ UNCHANGED other_vars

\* A call of add() with the payload of the next job.
Submit(chat_id, scheduled_time) ==
    AddCall(chat_id, Payloads[TotalJobs(scheduled_messages) + 1], scheduled_time)

Add ==
    \/ \E chat_id \in ChatIds, scheduled_time \in TimeTexts :
          Submit(chat_id, scheduled_time)
    \/ AddSaved
    \/ \E text \in DiskErrors : AddSaveRaises(text)

-----------------------------------------------------------------------------
(* Conversations.add, utils/conversations.py lines 34-44 *)

\* save() swallows every error of the write, so add() returns in either case.
conversations_add(h, chat_id, role, content) ==
    LET chat_id_str == str(chat_id)
        h1 == IF HasKey(h, chat_id_str) THEN h ELSE SetItem(h, chat_id_str, << >>)
    IN  SetItem(h1, chat_id_str,
                Append(Get(h1, chat_id_str), [role |-> role, content |-> content]))

-----------------------------------------------------------------------------
(* MessageSchedule._process_schedule, lines 71-104 *)

\* bot.send_message(chat_id, text) returns or raises.
SendOutcomes ==
    {Returns("sent")} \cup
    {Raises(Exception("ApiTelegramException", text)) : text \in DeliveryErrors}

\* The jobs a scan at clock reading t has to deliver.
DuePending(d, t) ==
    {p \in Jobs(d) : /\ IsPending(Job(d, p))
                     /\ IsDue(t, strptime(Job(d, p).scheduled_time).value)}

\* The locals of the loop body are dead while the thread sleeps or is gone;
\* the tick is over.
Leave(to) ==
    /\ pc' = to
    /\ tick_first' = Len(bot_calls)
    /\ tick_due' = {}
    /\ current_time' = 0
    /\ di_used' = 0
    /\ ki' = 0
    /\ copy_len' = 0
    /\ mi' = 0

\* line 76, FOR_ITER: the next item of the dict, line 79: the copy messages[:]
Enter(i) ==
    /\ pc' = "msgs"
    /\ ki' = i
    /\ copy_len' = Len(scheduled_messages[i].v)
    /\ mi' = 0

\* time.sleep(30) returns; lines 74-79 up to the first item of the dict
Wake ==
    /\ pc = "sleep"
    /\ IF Len(scheduled_messages) = 0
       THEN Leave("sleep")
       ELSE /\ current_time' = now
            /\ di_used' = Len(scheduled_messages)
            /\ tick_first' = Len(bot_calls)
            /\ tick_due' = DuePending(scheduled_messages, now)
            /\ Enter(1)
    /\ UNCHANGED << now, scheduled_messages, schedule_file, history, bot_calls >>
    /\ UNCHANGED add_vars
    /\ UNCHANGED other_vars

\* The inner loop is over; line 76 asks the dict iterator for the next item.
\* The iterator raises RuntimeError when the dict changed size since it was
\* made; nothing in the loop catches it.
NextChat ==
    /\ pc = "msgs"
    /\ mi = copy_len
    /\ IF Len(scheduled_messages) # di_used
       THEN Leave("dead")
       ELSE IF ki = Len(scheduled_messages)
       THEN Leave("sleep")
       ELSE /\ Enter(ki + 1)
            /\ UNCHANGED << current_time, di_used, tick_first, tick_due >>
    /\ UNCHANGED << now, scheduled_messages, schedule_file, history, bot_calls >>
    /\ UNCHANGED add_vars
    /\ UNCHANGED other_vars

\* The copy walked from its end.
Visit_reversed(done, n) == n - done

\* line 79, for message in messages[:]: the index visited after `done` of
\* the n elements of the copy have been visited.  The copy holds the same
\* dict objects as the list, and the list only grows at its end, so the
\* element of the copy at an index is the element of the list at that index.
Visit(done, n) == done + 1

\* Every job of the recipient's list is set.
SetCurrent_every(job) ==
    [scheduled_messages EXCEPT ![ki].v = [j \in 1..Len(@) |-> job]]

\* The job the inner loop looks at next.
Current == scheduled_messages[ki].v[Visit(mi, copy_len)]
SetCurrent(job) ==
    [scheduled_messages EXCEPT ![ki].v[Visit(mi, copy_len)] = job]
\* The job the loop has just handled.
Handled == scheduled_messages[ki].v[Visit(mi - 1, copy_len)]
SetHandled(job) ==
    [scheduled_messages EXCEPT ![ki].v[Visit(mi - 1, copy_len)] = job]

\* lines 80-86: is the job to be delivered now?
ToDeliver(message, t) ==
    /\ IsPending(message)
    /\ IsDue(t, strptime(message.scheduled_time).value)

\* lines 80 and 86: the job is not pending or not due
Skip ==
    /\ pc = "msgs"
    /\ mi < copy_len
    /\ ~ToDeliver(Current, current_time)
    /\ mi' = mi + 1
    /\ UNCHANGED << now, scheduled_messages, schedule_file, history, bot_calls,
                    tick_first, tick_due, pc, current_time, di_used, ki, copy_len >>
    /\ UNCHANGED add_vars
    /\ UNCHANGED other_vars

\* The record of a bot.send_message call.
BotCall(chat_id, text, outcome) ==
    [chat_id |-> chat_id, text |-> text, outcome |-> outcome,
     ref |-> <<ki, Visit(mi, copy_len)>>]

\* lines 87-96 and 99-101: send; then either record the conversation and mark
\* the job sent, or mark it failed with the text of the exception.
Send(outcome) ==
    /\ pc = "msgs"
    /\ mi < copy_len
    /\ ToDeliver(Current, current_time)
    /\ LET chat_id == int(scheduled_messages[ki].k)
       IN  /\ bot_calls' = Append(bot_calls,
                                  BotCall(chat_id, Current.message, outcome))
           /\ IF Raised(outcome)
              THEN /\ scheduled_messages' =
                          SetCurrent(mark_failed(Current, outcome.raises))
                   /\ pc' = "save_failed"
                   /\ UNCHANGED history
              ELSE /\ history' = conversations_add(history, chat_id, "assistant",
                                                   Current.message)
                   /\ scheduled_messages' = SetCurrent(mark_sent(Current))
                   /\ pc' = "save_sent"
    /\ mi' = mi + 1
    /\ UNCHANGED << now, schedule_file, tick_first, tick_due, current_time,
                    di_used, ki, copy_len >>
    /\ UNCHANGED add_vars
    /\ UNCHANGED other_vars

\* The loop goes on without writing the file.
SaveSent_unsaved ==
    /\ pc = "save_sent"
    /\ pc' = "msgs"
    /\ UNCHANGED << now, scheduled_messages, schedule_file, history, bot_calls,
                    tick_first, tick_due, current_time, di_used, ki, copy_len, mi >>
    /\ UNCHANGED add_vars
    /\ UNCHANGED other_vars

\* line 97 succeeds
SaveSent ==
    /\ pc = "save_sent"
    /\ schedule_file' = json_dump(scheduled_messages)
    /\ pc' = "msgs"
    /\ UNCHANGED << now, scheduled_messages, history, bot_calls, tick_first,
                    tick_due, current_time, di_used, ki, copy_len, mi >>
    /\ UNCHANGED add_vars
    /\ UNCHANGED other_vars

\* line 97 raises inside the try: lines 99-101 mark the delivered job failed
SaveSentRaises(text) ==
    /\ pc = "save_sent"
    /\ scheduled_messages' =
          SetHandled(mark_failed(Handled, Exception("OSError", text)))
    /\ pc' = "save_failed"
    /\ UNCHANGED << now, schedule_file, history, bot_calls, tick_first,
                    tick_due, current_time, di_used, ki, copy_len, mi >>
    /\ UNCHANGED add_vars
    /\ UNCHANGED other_vars

\* line 102 succeeds
SaveFailed ==
    /\ pc = "save_failed"
    /\ schedule_file' = json_dump(scheduled_messages)
    /\ pc' = "msgs"
    /\ UNCHANGED << now, scheduled_messages, history, bot_calls, tick_first,
                    tick_due, current_time, di_used, ki, copy_len, mi >>
    /\ UNCHANGED add_vars
    /\ UNCHANGED other_vars

\* line 102 raises inside the handler: the exception leaves the loop and the
\* thread ends
SaveFailedRaises ==
    /\ pc = "save_failed"
    /\ Leave("dead")
    /\ UNCHANGED << now, scheduled_messages, schedule_file, history, bot_calls >>
    /\ UNCHANGED add_vars
    /\ UNCHANGED other_vars

process_schedule ==
    \/ Wake
    \/ NextChat
    \/ Skip
    \/ \E outcome \in SendOutcomes : Send(outcome)
    \/ SaveSent
    \/ \E text \in DiskErrors : SaveSentRaises(text)
    \/ SaveFailed
    \/ SaveFailedRaises

-----------------------------------------------------------------------------

Next == Clock \/ Add \/ process_schedule

Spec == Init /\ [][Next]_vars

-----------------------------------------------------------------------------
(* The process: started on a store of any content, and ended at any point *)

\* What data/scheduled_messages.json may hold when the first process starts:
\* nothing, the empty dict, an empty text, a text cut short.
StoredAtFirst == {Missing, json_dump(EmptyDict), File(<< >>), File(<< Open >>)}

InitStopped ==
    /\ now = 0
    /\ schedule_file \in StoredAtFirst
    /\ scheduled_messages = EmptyDict
    /\ history = EmptyDict
    /\ add_pc = "off"
    /\ add_call = [result |-> NotReturned]
    /\ pc = "off"
    /\ current_time = 0
    /\ di_used = 0
    /\ ki = 0
    /\ copy_len = 0
    /\ mi = 0
    /\ bot_calls = << >>
    /\ tick_first = 0
    /\ tick_due = {}
    /\ NoWrite
    /\ NoAssistant
    /\ NoAgent

\* The file is left as it is found.
init_data_store_found(file) == file

\* The file is created with nothing in it.
init_data_store_touched(file) == IF ~file.exists THEN File(<< >>) ELSE file

\* lines 24-25: the file after _init_data_store has made sure there is one
init_data_store(file) == IF ~file.exists THEN json_dump(EmptyDict) ELSE file

\* A loader that starts from the empty dict when the text does not parse.
load_messages_tolerant(file) ==
    IF Raised(json_load(file)) /\ file.exists
    THEN Returns(EmptyDict)
    ELSE json_load(file)

\* lines 28-31, _load_messages
load_messages(file) == json_load(file)

locals_vars == << current_time, di_used, ki, copy_len, mi, tick_first, tick_due >>

\* lines 11-19: __init__ with every write succeeding.  An exception of
\* line 26 leaves __init__ before line 18: no object, no thread.
Start ==
    /\ pc = "off"
    /\ schedule_file' = init_data_store(schedule_file)
    /\ LET loaded == load_messages(init_data_store(schedule_file))
       IN  IF Raised(loaded)
           THEN /\ pc' = "init_failed"
                /\ UNCHANGED << scheduled_messages, add_pc >>
           ELSE /\ scheduled_messages' = loaded.value
                /\ pc' = "sleep"
                /\ add_pc' = "idle"
    /\ UNCHANGED << now, history, add_call, bot_calls >>
    /\ UNCHANGED locals_vars
    /\ UNCHANGED other_vars

\* line 25 raises: the file cannot be created
StartSaveRaises ==
    /\ pc = "off"
    /\ ~schedule_file.exists
    /\ pc' = "init_failed"
    /\ UNCHANGED << now, scheduled_messages, schedule_file, history, add_pc,
                    add_call, bot_calls >>
    /\ UNCHANGED locals_vars
    /\ UNCHANGED other_vars

\* The process is gone, with its objects and its threads; the file stays.
Stopped(file) ==
    /\ pc # "off"
    /\ schedule_file' = file
    /\ scheduled_messages' = EmptyDict
    /\ history' = EmptyDict
    /\ add_pc' = "off"
    /\ add_call' = [result |-> NotReturned]
    /\ pc' = "off"
    /\ current_time' = 0
    /\ di_used' = 0
    /\ ki' = 0
    /\ copy_len' = 0
    /\ mi' = 0
    /\ bot_calls' = << >>
    /\ tick_first' = 0
    /\ tick_due' = {}
    /\ UNCHANGED now
    /\ UNCHANGED other_vars

\* The process ends while no thread is inside _save_messages, or before
\* the open() of a save.
Crash == Stopped(schedule_file)

\* A thread is about to run _save_messages(self.scheduled_messages).
Saving == add_pc = "save" \/ pc \in {"save_sent", "save_failed"}

\* What a text is after open(..., 'w') has truncated the file and only some
\* of the chunks were written.
Cuts(text) == {SubSeq(text, 1, n) : n \in 0..(Len(text) - 1)}

\* lines 35-36: the process ends inside _save_messages
CrashInSave ==
    /\ Saving
    /\ \E text \in Cuts(json_dump(scheduled_messages).text) : Stopped(File(text))

Process == Start \/ StartSaveRaises \/ Crash \/ CrashInSave

\* The calls of add() made on these processes: any recipient, one time text.
AddSoon ==
    \/ \E chat_id \in ChatIds : Submit(chat_id, "2030-01-01 00:00:01")
    \/ AddSaved
    \/ \E text \in DiskErrors : AddSaveRaises(text)

NextProcess == Process \/ Clock \/ AddSoon \/ process_schedule

SpecProcess == InitStopped /\ [][NextProcess]_vars

-----------------------------------------------------------------------------
(* Claims about add() *)

ParsedTime(scheduled_time) == strptime(scheduled_time).value
Last(seq) == seq[Len(seq)]

\* add() hands its result to the caller in this step.
AddReturns == add_pc = "save" /\ add_pc' = "idle"

\* C1: every add() with a well-formed time strictly after the clock (here:
\* still after the clock when add() returns) returns success, and the file
\* loaded right after it holds exactly one job more than before the call:
\* the submitted payload and time text, pending, at the end of the
\* recipient's list.
C1_FutureSubmitPersisted ==
    [][ (AddReturns /\ ParsedTime(add_call.scheduled_time) > now') =>
          /\ add_call'.result = Success(add_call.scheduled_time)
          /\ LET after == json_load(schedule_file').value
                 key == str(add_call.chat_id)
             IN  /\ TotalJobs(after) = add_call.stored_before + 1
                 /\ HasKey(after, key)
                 /\ Last(Get(after, key)) =
                       [message |-> add_call.message,
                        scheduled_time |-> add_call.scheduled_time,
                        status |-> "pending"] ]_vars

C3_MalformedRejected ==
    [][ \A chat_id \in ChatIds, scheduled_time \in Malformed :
          Submit(chat_id, scheduled_time) =>
             /\ add_call'.result = InvalidFormat
             /\ scheduled_messages' = scheduled_messages
             /\ schedule_file' = schedule_file ]_vars

\* A malformed time was rejected while jobs were stored.
C3_Witness ==
    /\ add_call.result = InvalidFormat
    /\ TotalJobs(scheduled_messages) > 0

-----------------------------------------------------------------------------
(* Claims about the delivery loop *)

Calls == 1..Len(bot_calls)
Delivered(i) == ~Raised(bot_calls[i].outcome)
JobOf(i) == Job(scheduled_messages, bot_calls[i].ref)
KeyOf(i) == scheduled_messages[bot_calls[i].ref[1]].k
CallsOf(p) == {i \in Calls : bot_calls[i].ref = p}
\* The calls made by the tick that is running or was the last to run.
TickCalls == (tick_first + 1)..Len(bot_calls)
\* The place of a payload in the order of submission.
Submitted(text) == CHOOSE n \in 1..Len(Payloads) : Payloads[n] = text

C5_FailedKeepsReasonNoRetry ==
    \A i \in Calls :
        Raised(bot_calls[i].outcome) =>
            /\ JobOf(i).status = "failed"
            /\ "error" \in DOMAIN JobOf(i)
            /\ JobOf(i).error = bot_calls[i].outcome.raises.text
            /\ CallsOf(bot_calls[i].ref) = {i}

\* A later tick has scanned past a job whose delivery failed.
C5_Witness ==
    \E i \in Calls :
        /\ Raised(bot_calls[i].outcome)
        /\ i <= tick_first
        /\ pc = "msgs"
        /\ ki = bot_calls[i].ref[1]
        /\ mi >= bot_calls[i].ref[2]

\* C6: a status that is sent or failed never changes again.
C6_TerminalStatus ==
    [][ \A p \in Jobs(scheduled_messages) :
          Job(scheduled_messages, p).status \in {"sent", "failed"} =>
             Job(scheduled_messages', p).status =
                Job(scheduled_messages, p).status ]_vars

\* C7: a job is failed only if its send_message call raised, and sent only
\* if its send_message call returned.
C7_StatusFollowsDelivery ==
    \A p \in Jobs(scheduled_messages) :
        LET status == Job(scheduled_messages, p).status
        IN  /\ status = "failed" =>
                 /\ \E i \in CallsOf(p) : Raised(bot_calls[i].outcome)
                 /\ \A i \in CallsOf(p) : Raised(bot_calls[i].outcome)
            /\ status = "sent" =>
                 \E i \in CallsOf(p) : Delivered(i)

\* C8: every step that calls send_message calls it for a job that is
\* pending and whose time is at or before the tick's reading of the clock,
\* a reading the clock has reached.
C8_OnlyPendingAndDue ==
    [][ Len(bot_calls') > Len(bot_calls) =>
          LET job == Job(scheduled_messages, Last(bot_calls').ref)
          IN  /\ Len(bot_calls') = Len(bot_calls) + 1
              /\ job.status = "pending"
              /\ ParsedTime(job.scheduled_time) <= current_time
              /\ current_time <= now ]_vars

\* A tick has delivered a job after passing over a pending job of the same
\* recipient that was not due.
C8_Witness ==
    /\ pc \in {"save_sent", "save_failed"}
    /\ Len(bot_calls) > tick_first
    /\ \E p \in Jobs(scheduled_messages) :
          /\ Job(scheduled_messages, p).status = "pending"
          /\ ParsedTime(Job(scheduled_messages, p).scheduled_time) > current_time
          /\ p[1] = Last(bot_calls).ref[1]
          /\ p[2] < Last(bot_calls).ref[2]

\* C9: in the step that ends a tick, no job that was pending and due at its
\* start is still pending.
C9_DueJobsHandledByTick ==
    [][ (pc # "sleep" /\ pc' \in {"sleep", "dead"}) =>
          \A p \in tick_due : Job(scheduled_messages', p).status # "pending" ]_vars

\* C10: the calls one tick makes for one recipient are in the order in which
\* the jobs were submitted.
C10_SubmissionOrder ==
    \A i, j \in TickCalls :
        (i < j /\ bot_calls[i].chat_id = bot_calls[j].chat_id) =>
            Submitted(bot_calls[i].text) < Submitted(bot_calls[j].text)

\* One tick delivered two jobs of one recipient, the first submitted having
\* the later time.
C10_Witness ==
    \E i, j \in TickCalls :
        /\ i < j
        /\ bot_calls[i].chat_id = bot_calls[j].chat_id
        /\ ParsedTime(JobOf(i).scheduled_time) > ParsedTime(JobOf(j).scheduled_time)

-----------------------------------------------------------------------------
(* Claims about the store and the process *)

\* A process starts in this step.
Starts == pc = "off" /\ pc' # "off"

\* C11: when a process starts on a file that exists and does not parse, the
\* load raises, __init__ fails with no dict loaded (not an empty one, not a
\* part of one), no object to call add() on and no loop thread, and the file
\* is left as it was.
C11_CorruptStoreFailsInit ==
    [][ (Starts /\ schedule_file.exists /\ ~Parses(schedule_file.text)) =>
          /\ Raised(load_messages(schedule_file'))
          /\ pc' = "init_failed"
          /\ add_pc' = "off"
          /\ scheduled_messages' = scheduled_messages
          /\ schedule_file' = schedule_file ]_vars

\* A process has failed to start on a text that holds a recipient's jobs and
\* was cut short.
C11_Witness ==
    /\ pc = "init_failed"
    /\ schedule_file.exists
    /\ Len(schedule_file.text) >= 2

\* C12: for the dict of every reachable state (the empty one of the start
\* included), loading the file that _save_messages writes from it returns
\* that dict: the same keys in the same order, the same jobs in the same
\* order, every job with the same message, scheduled_time, status and, if it
\* has one, error.
C12_SaveLoadRoundTrip ==
    load_messages(json_dump(scheduled_messages)) = Returns(scheduled_messages)

\* The dict holds the jobs of two recipients, one that failed and has an
\* error and one without.
C12_Witness ==
    /\ Len(scheduled_messages) = 2
    /\ \E p, q \in Jobs(scheduled_messages) :
          /\ p[1] # q[1]
          /\ "error" \in DOMAIN Job(scheduled_messages, p)
          /\ "error" \notin DOMAIN Job(scheduled_messages, q)

C14_SubmitNeverRaises ==
    \/ add_call.result = NotReturned
    \/ "success" \in DOMAIN add_call.result
    \/ "error" \in DOMAIN add_call.result

\* C15: the loop thread never ends: whatever raises during a tick, the
\* thread goes on to its sleep and to another tick.
C15_LoopNeverStops == pc # "dead"

\* C16: when the process ends while a thread is in _save_messages, the file
\* afterwards is the one that was there before the save or the one the
\* save writes from the dict, whole.
C16_SaveAtomic ==
    [][ (Saving /\ pc # "off" /\ pc' = "off") =>
          \/ schedule_file' = schedule_file
          \/ schedule_file' = json_dump(scheduled_messages) ]_vars

\* The dict the file holds.
Stored == json_load(schedule_file).value

\* A process that ends outside a save leaves the file as it is, and the
\* process started on it has every job of the file with the status the file
\* gives it.
RestartLoadsStored ==
    /\ Crash => schedule_file' = schedule_file
    /\ (Start /\ schedule_file.exists /\ pc' = "sleep") =>
          /\ scheduled_messages' = Stored
          /\ schedule_file' = schedule_file

\* send_message is not called for a job that the file holds as sent or
\* failed.
StoredDoneNotSentAgain ==
    Len(bot_calls') > Len(bot_calls) =>
       LET p == Last(bot_calls').ref
       IN  HasJob(Stored, p) => Job(Stored, p).status = "pending"

\* In the step that ends a tick, no job that was pending and due at its
\* start is still pending.
PendingStillHandled ==
    (pc \notin {"sleep", "off"} /\ pc' \in {"sleep", "dead"}) =>
       \A p \in tick_due : Job(scheduled_messages', p).status # "pending"

\* C17: across the end of a process outside a save and the start of the
\* next one, every job keeps the status the file holds for it, no job the
\* file holds as sent or failed is delivered again, and every job the file
\* holds as pending is handled by the tick that finds it due.
C17_CrashKeepsCommitted ==
    [][ /\ RestartLoadsStored
        /\ StoredDoneNotSentAgain
        /\ PendingStillHandled ]_vars

\* The jobs whose change of status the file does not show.
Unflushed ==
    LET changed == {p \in Jobs(scheduled_messages) :
                       Job(scheduled_messages, p).status # "pending"}
    IN  IF changed = {} THEN {}
        ELSE LET stored == Stored
             IN  {p \in changed :
                    ~(HasJob(stored, p) /\ Job(stored, p) = Job(scheduled_messages, p))}

\* C18: while the loop is between two jobs or asleep, the file shows every
\* change of status made so far, and at no time more than one job has a
\* change that the file does not show.
C18_FlushAfterEachChange ==
    /\ Cardinality(Unflushed) <= 1
    /\ pc \in {"msgs", "sleep"} => Unflushed = {}

\* A tick has changed the status of two jobs, one to sent and one to failed,
\* and has moved on.
C18_Witness ==
    /\ pc = "msgs"
    /\ \E i, j \in TickCalls : Delivered(i) /\ Raised(bot_calls[j].outcome)

\* A save returns in this step.
SaveReturns == AddSaved \/ SaveSent \/ SaveFailed

\* The file read back is the dict in memory.
Agree == json_load(schedule_file) = Returns(scheduled_messages)

\* C19: after every step in which a save returns the file read back is the
\* dict in memory; and so it is whenever add() is not running and the loop
\* is asleep, whether or not a save has raised before.
C19_StoreAgreesWithMemory ==
    [][ /\ SaveReturns => Agree'
        /\ (add_pc' = "idle" /\ pc' = "sleep") => Agree' ]_vars

\* C20: in the step that ends a tick in which a send_message call raised,
\* no job that was pending and due at the start of the tick is still
\* pending: the jobs after the failed one, of the same recipient and of the
\* others, were attempted.
C20_FailureDoesNotAbortScan ==
    [][ ( /\ pc \in {"msgs", "save_sent", "save_failed"}
          /\ pc' \in {"sleep", "dead"}
          /\ \E i \in TickCalls : Raised(bot_calls[i].outcome) ) =>
          \A p \in tick_due : CallsOf(p) # {} ]_vars

-----------------------------------------------------------------------------
(* Claims about the two threads *)

\* add() has appended (line 59) and has not yet left _save_messages (line 60).
InAppendAndSave == add_pc = "save"
\* The loop is inside the scan of lines 76-102: at a job, at a status it has
\* just set, or at the save that follows.
InScan == pc \in {"msgs", "save_sent", "save_failed"}

\* C21: the submission path and the delivery loop are serialized: in no
\* reachable state is add() between its append and the end of its save while
\* the loop is inside its scan, its status update or its save.
C21_AccessSerialized == ~(InAppendAndSave /\ InScan)

\* The last call of add() has returned its success result.
SubmitDone == add_pc = "idle" /\ "success" \in DOMAIN add_call.result

\* C23: a tick scans the jobs the dict held when the loop woke: an add() that
\* has returned while the tick runs, for a recipient of the dict or for a new
\* one, does not end the tick (the scan never leaves by an exception of line
\* 76), and every job the tick delivers was pending and due at the wake.
C23_TickScansSnapshot ==
    [][/\ (pc = "msgs" /\ SubmitDone) => pc' # "dead"
       /\ InScan' =>
            \A i \in (tick_first' + 1)..Len(bot_calls') :
                bot_calls'[i].ref \in tick_due']_vars

-----------------------------------------------------------------------------
(* Claims about what a process keeps *)

\* The object exists: __init__ has returned and the process has not ended.
Up == pc \notin {"off", "init_failed"}

\* C24: a start that finds no file and returns has loaded the empty dict and
\* has written it, before add() can be called and before the loop thread
\* runs: the file then holds the text of {}; and as long as the dict of a
\* process is empty, the file exists and loads as the empty dict.
C24_FreshStartWritesEmpty ==
    [][/\ (Start /\ ~schedule_file.exists) =>
            /\ pc' = "sleep"
            /\ add_pc' = "idle"
            /\ scheduled_messages' = EmptyDict
            /\ schedule_file' = json_dump(EmptyDict)
            /\ bot_calls' = << >>
       /\ (Up' /\ scheduled_messages' = EmptyDict) =>
            /\ schedule_file'.exists
            /\ load_messages(schedule_file') = Returns(EmptyDict)]_vars

\* A process is up on the empty dict and the text of {}, nothing called yet,
\* the loop not yet awake.
C24_Witness ==
    /\ pc = "sleep"
    /\ add_pc = "idle"
    /\ add_call = [result |-> NotReturned]
    /\ scheduled_messages = EmptyDict
    /\ schedule_file = json_dump(EmptyDict)

\* The job at place p of dict d is at place p of dict e, for the same
\* recipient and with the same message and scheduled_time.
Kept(d, e, p) ==
    /\ HasJob(e, p)
    /\ e[p[1]].k = d[p[1]].k
    /\ Job(e, p).message = Job(d, p).message
    /\ Job(e, p).scheduled_time = Job(d, p).scheduled_time

\* add() appends a job in this step.
Appends == add_pc = "idle" /\ add_pc' = "save"

\* C26: every job of the dict has the status pending, sent or failed, and
\* has an error only when its status is failed; and the job add() appends is
\* pending and has no error.
C26_StatusDomain ==
    [][/\ \A p \in Jobs(scheduled_messages') :
            LET job == Job(scheduled_messages', p)
            IN  /\ job.status \in {"pending", "sent", "failed"}
                /\ "error" \in DOMAIN job => job.status = "failed"
       /\ Appends =>
            LET job == Last(Get(scheduled_messages', str(add_call'.chat_id)))
            IN  /\ job.status = "pending"
                /\ "error" \notin DOMAIN job
                /\ job.message = add_call'.message
                /\ TotalJobs(scheduled_messages') =
                      TotalJobs(scheduled_messages) + 1]_vars

\* add() has just appended a pending job to a dict that holds a failed job
\* with its error.
C26_Witness ==
    /\ add_pc = "save"
    /\ \E p, q \in Jobs(scheduled_messages) :
          /\ Job(scheduled_messages, p).status = "failed"
          /\ "error" \in DOMAIN Job(scheduled_messages, p)
          /\ Job(scheduled_messages, q).status = "pending"
          /\ Job(scheduled_messages, q).message = add_call.message

\* C27: the step in which add() appends changes the dict only at the list
\* of the recipient str(chat_id), and there only by one job more at the end:
\* the items keep their keys and their order, the lists of the other
\* recipients and the jobs the recipient had are as before, a recipient not
\* yet in the dict is put last; the key read back as an int is the chat id,
\* and two chat ids have the same key only when they are equal; the save and
\* the return of add() change nothing of the dict.
C27_SubmitFrame ==
    [][/\ Appends =>
            LET d == scheduled_messages
                e == scheduled_messages'
                k == str(add_call'.chat_id)
                n == IF HasKey(d, k) THEN Len(d) ELSE Len(d) + 1
            IN  /\ Len(e) = n
                /\ int(k) = add_call'.chat_id
                /\ \A i \in 1..Len(d) :
                      /\ e[i].k = d[i].k
                      /\ d[i].k # k => e[i].v = d[i].v
                      /\ d[i].k = k =>
                            /\ Len(e[i].v) = Len(d[i].v) + 1
                            /\ SubSeq(e[i].v, 1, Len(d[i].v)) = d[i].v
                /\ ~HasKey(d, k) => /\ e[n].k = k
                                    /\ Len(e[n].v) = 1
       /\ AddReturns => scheduled_messages' = scheduled_messages
       /\ \A c1, c2 \in ChatIds : str(c1) = str(c2) => c1 = c2]_vars

\* add() has appended the first job of a second recipient to a dict that
\* holds a job of another recipient, no longer pending.
C27_Witness ==
    /\ add_pc = "save"
    /\ Len(scheduled_messages) = 2
    /\ str(add_call.chat_id) = scheduled_messages[2].k
    /\ scheduled_messages[1].v[1].status # "pending"

\* C28: a step of a running process other than the append of add() changes
\* at most one job of the dict, the one of the last send_message call, and of
\* that job only the status and the error: its message, its scheduled_time
\* and its place are as before, and so is every other job; the job a
\* send_message call is made for was pending and due, so a job that is not
\* due or not pending is left as it is.
C28_DeliveryFrame ==
    [][(Up /\ Up' /\ ~Appends) =>
          /\ Len(scheduled_messages') = Len(scheduled_messages)
          /\ \A i \in 1..Len(scheduled_messages) :
                /\ scheduled_messages'[i].k = scheduled_messages[i].k
                /\ Len(scheduled_messages'[i].v) = Len(scheduled_messages[i].v)
          /\ \A p \in Jobs(scheduled_messages) :
                Job(scheduled_messages', p) # Job(scheduled_messages, p) =>
                   /\ Len(bot_calls') > tick_first'
                   /\ p = Last(bot_calls').ref
                   /\ Kept(scheduled_messages, scheduled_messages', p)
                   /\ DOMAIN Job(scheduled_messages', p) \ {"error"} =
                         DOMAIN Job(scheduled_messages, p) \ {"error"}
                   /\ Job(scheduled_messages', p).status \in {"sent", "failed"}
                   /\ Len(bot_calls') > Len(bot_calls) =>
                         ToDeliver(Job(scheduled_messages, p), current_time)]_vars

\* The tick has delivered the second job of a recipient and has set its
\* status; the first job, handled by an earlier tick, is as that tick left
\* it.
C28_Witness ==
    /\ pc \in {"save_sent", "save_failed"}
    /\ tick_first = 1
    /\ Len(bot_calls) = 2
    /\ bot_calls[1].ref = <<1, 1>>
    /\ bot_calls[2].ref = <<1, 2>>
    /\ Delivered(1) = (scheduled_messages[1].v[1].status = "sent")

-----------------------------------------------------------------------------
(* _save_messages step by step, lines 33-36: the two threads write one file *)

\* The characters of a string as json.dump writes it, with its quotes.
Quoted(s) == Len(s) + 2

\* The sum of the numbers of a sequence.
RECURSIVE Sum(_)
Sum(s) == IF s = << >> THEN 0 ELSE Head(s) + Sum(Tail(s))

\* The commas between n elements.
Commas(n) == IF n = 0 THEN 0 ELSE n - 1

\* The characters json.dump(..., indent=2) writes for a job: the braces, and
\* for each key a line of six spaces, the key, a colon and the value.
ObjectSize(members) ==
    LET pair(i) == 7 + Quoted(members[i][1]) + 2 + Quoted(members[i][2])
    IN  1 + Sum([i \in 1..Len(members) |-> pair(i)]) + Commas(Len(members)) + 6

\* ... for a recipient's list: the brackets, each job on a line of its own.
ListSize(value) ==
    LET job(j) == 5 + ObjectSize(value[j])
    IN  IF Len(value) = 0 THEN 2
        ELSE 1 + Sum([j \in 1..Len(value) |-> job(j)]) + Commas(Len(value)) + 4

\* What is left of an older, longer text behind a newer one.
Rest(n) == [tok |-> "rest", n |-> n]

\* ... for a chunk of the text.
ChunkSize(chunk) ==
    CASE chunk.tok = "{"      -> 1
      [] chunk.tok = "}"      -> 1
      [] chunk.tok = "member" -> 3 + Quoted(chunk.name) + 2 + ListSize(chunk.value)
      [] chunk.tok = "rest"   -> chunk.n

\* The length of a text in characters: its chunks, the commas between the
\* members, the line break before the closing brace of a dict that is not
\* empty.
Size(text) ==
    LET chunk(i) == ChunkSize(text[i])
        members == Cardinality({i \in 1..Len(text) : text[i].tok = "member"})
    IN  Sum([i \in 1..Len(text) |-> chunk(i)]) + Commas(members) +
           (IF members > 0 THEN 1 ELSE 0)

\* line 35, open(self.schedule_file, 'w'): the file is there and is empty.
open_w(file) == File(<< >>)

\* The file object after open(): nothing written into its buffer yet.
Opened == [open |-> TRUE, dumped |-> FALSE, buffer |-> << >>]
\* line 36, json.dump(messages, f, indent=2): the text is in the buffer of f.
Dumped(messages) ==
    [open |-> TRUE, dumped |-> TRUE, buffer |-> json_dump(messages).text]

\* The end of the with block: f.close() writes the buffer at the position of
\* f, the start of the file.  The file is not cut there: what it holds
\* behind the characters written stays.
close_f(file, buffer) ==
    IF Size(file.text) > Size(buffer)
    THEN File(buffer \o << Rest(Size(file.text) - Size(buffer)) >>)
    ELSE File(buffer)

\* add() at line 60: open
AddOpen ==
    /\ add_pc = "save"
    /\ ~save_f.add.open
    /\ schedule_file' = open_w(schedule_file)
    /\ save_f' = [save_f EXCEPT !.add = Opened]
    /\ UNCHANGED << now, scheduled_messages, add_pc, add_call >>
    /\ UNCHANGED tick_vars
    /\ UNCHANGED << assistant_vars, agent_vars >>

\* add() at line 60: dump
AddDump ==
    /\ save_f.add.open
    /\ ~save_f.add.dumped
    /\ save_f' = [save_f EXCEPT !.add = Dumped(scheduled_messages)]
    /\ UNCHANGED << now, scheduled_messages, schedule_file, add_pc, add_call >>
    /\ UNCHANGED tick_vars
    /\ UNCHANGED << assistant_vars, agent_vars >>

\* add() at line 60: close; lines 62-66
AddClose ==
    /\ save_f.add.open
    /\ save_f.add.dumped
    /\ schedule_file' = close_f(schedule_file, save_f.add.buffer)
    /\ save_f' = [save_f EXCEPT !.add = Closed]
    /\ add_call' = [result |-> Success(add_call.scheduled_time)]
    /\ add_pc' = "idle"
    /\ UNCHANGED << now, scheduled_messages >>
    /\ UNCHANGED tick_vars
    /\ UNCHANGED << assistant_vars, agent_vars >>

\* What the steps of the loop's save leave alone.
scan_vars == << now, scheduled_messages, history, bot_calls, tick_first,
                tick_due, current_time, di_used, ki, copy_len, mi >>

\* the loop at line 97 or line 102: open
LoopOpen ==
    /\ pc \in {"save_sent", "save_failed"}
    /\ ~save_f.loop.open
    /\ schedule_file' = open_w(schedule_file)
    /\ save_f' = [save_f EXCEPT !.loop = Opened]
    /\ UNCHANGED << pc, scan_vars, add_vars, assistant_vars, agent_vars >>

\* the loop at line 97 or line 102: dump
LoopDump ==
    /\ save_f.loop.open
    /\ ~save_f.loop.dumped
    /\ save_f' = [save_f EXCEPT !.loop = Dumped(scheduled_messages)]
    /\ UNCHANGED << pc, schedule_file, scan_vars, add_vars, assistant_vars,
                    agent_vars >>

\* the loop at line 97 or line 102: close, and on to the next job
LoopClose ==
    /\ save_f.loop.open
    /\ save_f.loop.dumped
    /\ schedule_file' = close_f(schedule_file, save_f.loop.buffer)
    /\ save_f' = [save_f EXCEPT !.loop = Closed]
    /\ pc' = "msgs"
    /\ UNCHANGED << scan_vars, add_vars, assistant_vars, agent_vars >>

\* The calls of add() made while the writes are followed step by step.
SubmitSoon == \E chat_id \in ChatIds : Submit(chat_id, "2030-01-01 00:00:01")

NextWrites ==
    \/ Clock
    \/ SubmitSoon
    \/ AddOpen
    \/ AddDump
    \/ AddClose
    \/ Wake
    \/ NextChat
    \/ Skip
    \/ \E outcome \in SendOutcomes : Send(outcome)
    \/ LoopOpen
    \/ LoopDump
    \/ LoopClose

\* One process on a fresh store, every write of the file succeeding, the
\* steps of the two threads' writes taken in any order.
SpecWrites == Init /\ [][NextWrites]_vars

\* add() has returned success, the loop sleeps, no file object is open.
BothFinished ==
    /\ SubmitDone
    /\ pc = "sleep"
    /\ save_f = [add |-> Closed, loop |-> Closed]

\* C22: whenever a call of add() has returned success and the tick that ran
\* beside it is over, the file parses and holds every job of the dict, the
\* submitted one included, each with the status the dict has for it.
C22_SubmitMidTickKept ==
    BothFinished =>
       /\ ~Raised(json_load(schedule_file))
       /\ \A p \in Jobs(scheduled_messages) :
             /\ Kept(scheduled_messages, Stored, p)
             /\ Job(Stored, p).status = Job(scheduled_messages, p).status

\* A save returns in this step, written at once or step by step.
SaveReturned == SaveReturns \/ AddClose \/ LoopClose

\* C25: no step of a running process takes a job out of the dict or moves
\* it: every job of the dict, whatever its status, is at the same place of
\* the same recipient's list after the step; and the file a returning save
\* leaves can be read and holds every job of the dict at its place.
C25_JobsNeverDeleted ==
    [][(Up /\ Up') =>
          /\ \A p \in Jobs(scheduled_messages) :
                Kept(scheduled_messages, scheduled_messages', p)
          /\ SaveReturned =>
                /\ ~Raised(json_load(schedule_file'))
                /\ \A p \in Jobs(scheduled_messages') :
                      Kept(scheduled_messages', json_load(schedule_file').value, p)]_vars

-----------------------------------------------------------------------------
(* main.py: the message handlers, Assistant.chat, Assistant.schedule_message *)

\* lines 606-610 (586-590 for a photo): the entry a handler appends
FromChat(c) == [role |-> "user", chat_id |-> c]
\* line 427, lines 462-471, line 482: the entries chat() appends
User == [role |-> "user"]
ToolCalls == [role |-> "assistant", tool_calls |-> "schedule_message"]
Tool(function_response) == [role |-> "tool", content |-> function_response]
Assistant == [role |-> "assistant"]

NoChatId == [error |-> "No chat ID found in conversation history"]

\* lines 492-497: the chat id of the last entry that has one, or the error
last_chat_id(h) ==
    LET having == {i \in 1..Len(h) : "chat_id" \in DOMAIN h[i]}
    IN  IF having = {}
        THEN Raises(NoChatId)
        ELSE Returns(h[CHOOSE i \in having : \A j \in having : j <= i].chat_id)

\* The calls of chat() made so far.
Chats == Cardinality({i \in 1..Len(conversation_history) :
                         conversation_history[i] = User})

assistant_others == << schedule_vars, write_vars, agent_vars >>

\* handle_text, lines 601-613, and chat(), lines 409-435: the handler of
\* chat c appends its entry, chat() appends the user message and asks the
\* model.
Receive(c) ==
    /\ handler_pc[c] = "idle"
    /\ Chats < MaxChats
    /\ conversation_history' =
          conversation_history \o << FromChat(c), User >>
    /\ handler_pc' = [handler_pc EXCEPT ![c] = "model"]
    /\ UNCHANGED << scheduler_calls, assistant_others >>

\* daily_summary.py line 68: chat() is called for a summary, with no entry
\* of a handler before it.
Summary ==
    /\ handler_pc[SummaryThread] = "idle"
    /\ Chats < MaxChats
    /\ conversation_history' = Append(conversation_history, User)
    /\ handler_pc' = [handler_pc EXCEPT ![SummaryThread] = "model"]
    /\ UNCHANGED << scheduler_calls, assistant_others >>

\* lines 449-471: the model asks for schedule_message; line 458 calls
\* Assistant.schedule_message, lines 489-499, and the call and its result
\* are appended.
ToolCall(t) ==
    /\ handler_pc[t] = "model"
    /\ LET chat_id == last_chat_id(conversation_history)
       IN  IF Raised(chat_id)
           THEN /\ UNCHANGED scheduler_calls
                /\ conversation_history' =
                      conversation_history \o << ToolCalls, Tool(chat_id.raises) >>
           ELSE /\ scheduler_calls' =
                      Append(scheduler_calls,
                             [chat_id |-> chat_id.value, caller |-> t])
                /\ conversation_history' =
                      conversation_history \o
                         << ToolCalls, Tool([success |-> TRUE]) >>
    /\ handler_pc' = [handler_pc EXCEPT ![t] = "answer"]
    /\ UNCHANGED assistant_others

\* lines 474-483: the model's answer is appended and chat() returns
Reply(t) ==
    /\ handler_pc[t] \in {"model", "answer"}
    /\ conversation_history' = Append(conversation_history, Assistant)
    /\ handler_pc' = [handler_pc EXCEPT ![t] = "idle"]
    /\ UNCHANGED << scheduler_calls, assistant_others >>

\* lines 484-487: a call of the model raises; chat() returns its apology
ModelRaises(t) ==
    /\ handler_pc[t] \in {"model", "answer"}
    /\ handler_pc' = [handler_pc EXCEPT ![t] = "idle"]
    /\ UNCHANGED << conversation_history, scheduler_calls, assistant_others >>

NextAssistant ==
    \/ \E c \in ChatIds : Receive(c)
    \/ Summary
    \/ \E t \in Callers : ToolCall(t)
    \/ \E t \in Callers : Reply(t)
    \/ \E t \in Callers : ModelRaises(t)

\* The one Assistant object of main.py with the handlers of the chats and
\* the summary thread, each handler on a thread of the bot's pool.
SpecAssistant == Init /\ [][NextAssistant]_vars

\* C29: every message_scheduler.schedule_message call made while the handler
\* of chat c runs the tool call is made with chat id c, however the handlers
\* of the chats interleave; and a tool call run on a history in which no
\* entry has a chat id appends the error as its result and makes no call.
C29_SubmitsForOwnChat ==
    [][/\ \A i \in 1..Len(scheduler_calls') :
            scheduler_calls'[i].caller \in ChatIds =>
               scheduler_calls'[i].chat_id = scheduler_calls'[i].caller
       /\ (/\ Raised(last_chat_id(conversation_history))
           /\ Len(conversation_history') > Len(conversation_history)
           /\ Last(conversation_history').role = "tool") =>
            /\ scheduler_calls' = scheduler_calls
            /\ Last(conversation_history') = Tool(NoChatId)]_vars

-----------------------------------------------------------------------------
(* agents/file_agent.py: FileAgent.process_task, lines 154-212 *)

\* line 20
max_iterations == 10

\* process_task is at the test of its while loop, `depth` calls of
\* process_task below the first one; or it has returned.
InLoop(depth) == [at |-> "loop", depth |-> depth]
ReturnedWith(status) == [at |-> "returned", status |-> status]

\* The names a tool call of the model's answer can carry: tools of the
\* list of lines 78-152, a name the object has no attribute for, and
\* attributes of the object that are no tools.
ToolNames == {"read_file", "search_files", "copy_to_ai_directory",
              "no_such_function", "handle_response", "__init__"}

agent_others == << schedule_vars, write_vars, assistant_vars >>

\* lines 154-160: the assistant hands a task to the agent
StartTask ==
    /\ agent_pc.at # "loop"
    /\ current_iteration' = 0
    /\ model_calls' = 0
    /\ agent_pc' = InLoop(0)
    /\ UNCHANGED agent_others

\* A call of process_task ends with `status`: the first one returns to the
\* assistant; one made as a tool call returns into the pass that made it,
\* which goes on with lines 189-197, handle_response included.
Return(status) ==
    IF agent_pc.depth = 0
    THEN /\ agent_pc' = ReturnedWith(status)
         /\ UNCHANGED current_iteration
    ELSE /\ agent_pc' = InLoop(agent_pc.depth - 1)
         /\ current_iteration' = current_iteration + 1

\* lines 164-170: the model is asked
Asked ==
    /\ agent_pc.at = "loop"
    /\ current_iteration < max_iterations
    /\ model_calls < MaxModelCalls
    /\ model_calls' = model_calls + 1
    /\ UNCHANGED agent_others

\* lines 199-200: the answer has no tool call
Answer ==
    /\ Asked
    /\ Return("complete")

\* lines 181-182: the answer calls return_to_assistant
ReturnToAssistant ==
    /\ Asked
    /\ Return("complete")

\* lines 202-207: the model call, json.loads or the tool raises
AgentRaises ==
    /\ Asked
    /\ Return("error")

\* lines 184-197: the answer calls `function_name`; line 185 calls the
\* attribute of that name when the object has one, and handle_response
\* counts the pass (line 216).
CallTool(function_name) ==
    /\ Asked
    /\ current_iteration' =
          CASE function_name = "handle_response" -> (current_iteration + 1) + 1
            [] function_name = "__init__"        -> 0 + 1
            [] OTHER                             -> current_iteration + 1
    /\ UNCHANGED agent_pc

\* lines 184-185 with function_name = "process_task": the method calls
\* itself; line 156 sets the counter of the object to 0.
CallProcessTask ==
    /\ Asked
    /\ agent_pc.depth < MaxDepth
    /\ current_iteration' = 0
    /\ agent_pc' = InLoop(agent_pc.depth + 1)

\* lines 162 and 209-212: the test of the while loop fails
ReturnMax ==
    /\ agent_pc.at = "loop"
    /\ current_iteration >= max_iterations
    /\ Return("max_iterations")
    /\ UNCHANGED model_calls
    /\ UNCHANGED agent_others

NextAgent ==
    \/ StartTask
    \/ Answer
    \/ ReturnToAssistant
    \/ AgentRaises
    \/ \E function_name \in ToolNames : CallTool(function_name)
    \/ CallProcessTask
    \/ ReturnMax

SpecAgent == Init /\ [][NextAgent]_vars

\* C30: a call of process_task asks the model at most max_iterations times
\* whatever the answers are; a pass of the loop that does not return adds
\* exactly one to current_iteration; and the call that ends because the
\* counter has reached max_iterations returns the status max_iterations.
C30_AtMostMaxIterations ==
    [][/\ model_calls' <= max_iterations
       /\ (model_calls' = model_calls + 1 /\ agent_pc' = agent_pc) =>
             current_iteration' = current_iteration + 1
       /\ (agent_pc.at = "loop" /\ agent_pc.depth = 0 /\ agent_pc'.at = "returned"
           /\ current_iteration >= max_iterations) =>
             agent_pc'.status = "max_iterations"]_vars

====
